---- MODULE Spec2Model ----
(***************************************************************************)
(* Model of the calendar subscription backend (src/server.js, and the      *)
(* earlier in-memory draft src/server-old.js).                             *)
(*                                                                         *)
(* Text is a sequence of one-character strings.  A feed document is a      *)
(* sequence of lines; a line is a property name and a value, the value a   *)
(* sequence of string fragments whose concatenation is the text after the  *)
(* colon.  Instants are minutes since 1970-01-01T00:00Z (every time of day *)
(* the handlers accept is a whole minute).                                 *)
(***************************************************************************)
EXTENDS Integers, Sequences, FiniteSets, TLC

VARIABLES
    text,       \* escapeICSText: the argument
    escaped,    \* escapeICSText: the value returned, or Unset before the call
    tz,         \* the process's time zone: local time minus UTC, in minutes
    now,        \* the clock, as new Date() reads it
    calendar,   \* generateCalendarFeed: the argument
    document,   \* generateCalendarFeed: the value returned, Thrown, or Unset
    sessionTokens,   \* req.session.tokens of each session of the session store
    credentials,     \* the credentials set on the process-wide oauth2Client
    googleCalendars, \* upstream: the calendars Google holds
    googleEvents,    \* upstream: the events Google holds
    googleIssued,    \* upstream: how many event identifiers Google has handed out
    dbCalendars,     \* Supabase table calendars, in insertion order
    dbEvents,        \* Supabase table events, in insertion order
    response,        \* what the last request was answered with
    ackedEvents,     \* history: the event creations answered 200 and not deleted since
    magicLinks,      \* store: the MagicLink records, in insertion order
    lastLogin,       \* store: the last-login timestamp of each User
    calls,           \* the consumeMagicLink calls: position, inputs, outcome
    deletedCalendars, \* history: the calendars a delete request has removed
    inflight,        \* the handlers suspended at an await: route and position
    upstreamCalls    \* history: the Google API calls made, and the credentials used

escVars == <<text, escaped>>
envVars == <<tz, now>>
renVars == <<calendar, document>>
authVars == <<sessionTokens, credentials>>
googleVars == <<googleCalendars, googleEvents, googleIssued>>
dbVars == <<dbCalendars, dbEvents>>
appVars == <<authVars, googleVars, dbVars, response, ackedEvents>>
magicVars == <<magicLinks, lastLogin, calls>>
clientVars == <<inflight, upstreamCalls>>
\* what the routes leave alone, and what the magic-link exchange leaves alone
notApp == <<escVars, renVars, envVars, magicVars, deletedCalendars, clientVars>>
notMagic == <<escVars, renVars, tz, appVars, deletedCalendars, clientVars>>
vars == <<text, escaped, tz, now, calendar, document, sessionTokens, credentials,
          googleCalendars, googleEvents, googleIssued, dbCalendars, dbEvents,
          response, ackedEvents, magicLinks, lastLogin, calls, deletedCalendars,
          inflight, upstreamCalls>>

\* undefined / null in the JavaScript source (every optional value is a
\* sequence, and no present value is this one)
Absent == <<"absent">>
\* a result that has not been produced yet
Unset == <<"unset">>
\* an exception propagating out of a call
Thrown == <<"thrown">>

----------------------------------------------------------------------------
(* Bounds *)

\* longest free text handed to escapeICSText
MaxLen == 3
\* most events in a calendar handed to generateCalendarFeed
MaxRenderEvents == 2
\* most calendars Google creates in one run
MaxCalendars == 2
\* most events Google creates in one run
MaxEvents == 2
\* most magic links issued in one run
MaxLinks == 2
\* most clock ticks in one run
MaxTicks == 2
\* minutes in one clock tick
TickMinutes == 10
\* how many handlers are suspended at an await at once
MaxInflight == 2

----------------------------------------------------------------------------
(* Text *)

BACKSLASH == "\\"
NEWLINE == "\n"
CR == "\r"

\* the characters free text is built from
Alphabet == {"a", "n", BACKSLASH, ";", ",", NEWLINE, CR}

TextsUpTo(n) == UNION {[1..k -> Alphabet] : k \in 0..n}

\* String.prototype.replace(/c/g, r) for a one-character pattern c
RECURSIVE ReplaceAll(_, _, _)
ReplaceAll(s, c, r) ==
    IF s = <<>> THEN <<>>
    ELSE (IF Head(s) = c THEN r ELSE <<Head(s)>>) \o ReplaceAll(Tail(s), c, r)

\* the same chain with the backslash pass run last instead of first
escapeBackslashLast(t) ==
    IF t = Absent \/ t = <<>> THEN <<>>
    ELSE LET s1 == ReplaceAll(t, ";", <<BACKSLASH, ";">>)
             s2 == ReplaceAll(s1, ",", <<BACKSLASH, ",">>)
             s3 == ReplaceAll(s2, NEWLINE, <<BACKSLASH, "n">>)
             s4 == ReplaceAll(s3, CR, <<>>)
         IN  ReplaceAll(s4, BACKSLASH, <<BACKSLASH, BACKSLASH>>)

\* the same chain with the newline pass left out
escapeNoNewline(t) ==
    IF t = Absent \/ t = <<>> THEN <<>>
    ELSE LET s1 == ReplaceAll(t, BACKSLASH, <<BACKSLASH, BACKSLASH>>)
             s2 == ReplaceAll(s1, ";", <<BACKSLASH, ";">>)
             s3 == ReplaceAll(s2, ",", <<BACKSLASH, ",">>)
         IN  ReplaceAll(s3, CR, <<>>)

escapeICSText(t) ==
    IF t = Absent \/ t = <<>> THEN <<>>
    ELSE LET s1 == ReplaceAll(t, BACKSLASH, <<BACKSLASH, BACKSLASH>>)
             s2 == ReplaceAll(s1, ";", <<BACKSLASH, ";">>)
             s3 == ReplaceAll(s2, ",", <<BACKSLASH, ",">>)
             s4 == ReplaceAll(s3, NEWLINE, <<BACKSLASH, "n">>)
         IN  ReplaceAll(s4, CR, <<>>)

----------------------------------------------------------------------------
(* Date: new Date(string), getTime, toISOString *)

\* a Date is <<t>>, t its getTime() in minutes; the Invalid Date has none
NaN == <<>>

\* time zones the process may run in (constant offsets)
TZOffsets == {-300, 0, 330}

MinutesPerDay == 24 * 60
\* 60 * 60 * 1000 ms
HourMinutes == 60

\* days since 1970-01-01 of a proleptic Gregorian date
DaysFromCivil(y, m, d) ==
    LET yy  == IF m <= 2 THEN y - 1 ELSE y
        era == yy \div 400
        yoe == yy - era * 400
        mp  == IF m > 2 THEN m - 3 ELSE m + 9
        doy == (153 * mp + 2) \div 5 + d - 1
        doe == yoe * 365 + yoe \div 4 - yoe \div 100 + doy
    IN  era * 146097 + doe - 719468

\* the proleptic Gregorian date <<y, m, d>> of a day number
CivilFromDays(n) ==
    LET z   == n + 719468
        era == z \div 146097
        doe == z - era * 146097
        yoe == (doe - doe \div 1460 + doe \div 36524 - doe \div 146096) \div 365
        doy == doe - (365 * yoe + yoe \div 4 - yoe \div 100)
        mp  == (5 * doy + 2) \div 153
        d   == doy - (153 * mp + 2) \div 5 + 1
        m   == IF mp < 10 THEN mp + 3 ELSE mp - 9
        y   == yoe + era * 400
    IN  <<(IF m <= 2 THEN y + 1 ELSE y), m, d>>

IsDateString(d) == Len(d) = 3 /\ d[1] \in Int
IsTimeString(t) == Len(t) = 2 /\ t[1] \in Int

\* new Date(date + 'T' + time): a date-time string without an offset is read
\* as local time; anything else ("undefinedT12:00", ...) is an Invalid Date
NewDate(date, time) ==
    IF IsDateString(date) /\ IsTimeString(time)
    THEN <<DaysFromCivil(date[1], date[2], date[3]) * MinutesPerDay
               + time[1] * 60 + time[2] - tz>>
    ELSE NaN

\* new Date(d.getTime() + 60 * 60 * 1000)
PlusOneHour(d) == IF d = NaN THEN NaN ELSE <<d[1] + HourMinutes>>

Digits == <<"0", "1", "2", "3", "4", "5", "6", "7", "8", "9">>

RECURSIVE Pad(_, _)
Pad(n, w) == IF w = 0 THEN <<>> ELSE Pad(n \div 10, w - 1) \o <<Digits[(n % 10) + 1]>>

\* Date.prototype.toISOString(): YYYY-MM-DDTHH:mm:ss.sssZ in UTC; throws a
\* RangeError on an Invalid Date
ISOString(ymd, mod) ==
    Pad(ymd[1], 4) \o <<"-">> \o Pad(ymd[2], 2) \o <<"-">> \o Pad(ymd[3], 2)
        \o <<"T">> \o Pad(mod \div 60, 2) \o <<":">> \o Pad(mod % 60, 2)
        \o <<":">> \o Pad(0, 2) \o <<".">> \o Pad(0, 3) \o <<"Z">>

toISOString(d) ==
    IF d = NaN THEN Thrown
    ELSE ISOString(CivilFromDays(d[1] \div MinutesPerDay), d[1] % MinutesPerDay)

\* s.split(c)[0]
RECURSIVE BeforeFirst(_, _)
BeforeFirst(s, c) ==
    IF s = <<>> \/ Head(s) = c THEN <<>> ELSE <<Head(s)>> \o BeforeFirst(Tail(s), c)

\* iso.replace(/[-:]/g, '').split('.')[0] + 'Z', for the string or the
\* exception toISOString gave
Compact(iso) ==
    IF iso = Thrown THEN Thrown
    ELSE BeforeFirst(SelectSeq(iso, LAMBDA c : c \notin {"-", ":"}), ".") \o <<"Z">>

formatDateForICS(d) == Compact(toISOString(d))

----------------------------------------------------------------------------
(* generateCalendarFeed *)

\* a line NAME:value of the document
Line(name, value) == [name |-> name, value |-> value]

\* JavaScript truthiness of an optional string
Truthy(s) == s # Absent /\ s # <<>>

\* event.time || '12:00'
Noon == <<12, 0>>

StartDate(event) == NewDate(event.date, IF Truthy(event.time) THEN event.time ELSE Noon)

\* the start used for both ends of the event
EndDateSameAsStart(event) == StartDate(event)

EndDate(event) ==
    IF Truthy(event.endTime)
    THEN NewDate(event.date, event.endTime)
    ELSE PlusOneHour(StartDate(event))

HeaderBlock(cal) ==
    << Line("BEGIN", <<"VCALENDAR">>),
       Line("VERSION", <<"2.0">>),
       Line("PRODID", <<"-//Calendar App//WhatsApp Calendar//EN">>),
       Line("CALSCALE", <<"GREGORIAN">>),
       Line("METHOD", <<"PUBLISH">>),
       Line("X-WR-CALNAME", escapeICSText(cal.name)) >>
    \o (IF Truthy(cal.description)
        THEN <<Line("X-WR-CALDESC", escapeICSText(cal.description))>>
        ELSE <<>>)
    \o << Line("X-WR-TIMEZONE", <<"UTC">>),
          Line("REFRESH-INTERVAL;VALUE=DURATION", <<"PT1H">>),
          Line("X-PUBLISHED-TTL", <<"PT1H">>) >>

\* the forEach body with the location written before the description
eventLinesLocationFirst(event, stamp, start, end) ==
        IF start = Thrown \/ end = Thrown THEN Thrown
        ELSE << Line("BEGIN", <<"VEVENT">>),
                Line("UID", <<event.id, "@calendar-app.com">>),
                Line("DTSTAMP", stamp),
                Line("DTSTART", start),
                Line("DTEND", end),
                Line("SUMMARY", escapeICSText(event.title)) >>
             \o (IF Truthy(event.location)
                 THEN <<Line("LOCATION", escapeICSText(event.location))>>
                 ELSE <<>>)
             \o (IF Truthy(event.description)
                 THEN <<Line("DESCRIPTION", escapeICSText(event.description))>>
                 ELSE <<>>)
             \o << Line("STATUS", <<"CONFIRMED">>),
                   Line("SEQUENCE", <<"0">>),
                   Line("END", <<"VEVENT">>) >>

\* the lines one pass of the forEach body appends, or Thrown
EventLines(event, stamp, start, end) ==
        IF start = Thrown \/ end = Thrown THEN Thrown
        ELSE << Line("BEGIN", <<"VEVENT">>),
                Line("UID", <<event.id, "@calendar-app.com">>),
                Line("DTSTAMP", stamp),
                Line("DTSTART", start),
                Line("DTEND", end),
                Line("SUMMARY", escapeICSText(event.title)) >>
             \o (IF Truthy(event.description)
                 THEN <<Line("DESCRIPTION", escapeICSText(event.description))>>
                 ELSE <<>>)
             \o (IF Truthy(event.location)
                 THEN <<Line("LOCATION", escapeICSText(event.location))>>
                 ELSE <<>>)
             \o << Line("STATUS", <<"CONFIRMED">>),
                   Line("SEQUENCE", <<"0">>),
                   Line("END", <<"VEVENT">>) >>

EventBlock(event) ==
    EventLines(event, formatDateForICS(<<now>>), formatDateForICS(StartDate(event)),
               formatDateForICS(EndDate(event)))

\* ics += ...: the text so far with more appended, or the exception that
\* ended the call
Appended(ics, more) == IF ics = Thrown \/ more = Thrown THEN Thrown ELSE ics \o more

\* events.forEach(...): the blocks in order, or Thrown as soon as one throws
RECURSIVE EventBlocks(_)
EventBlocks(evs) ==
    IF evs = <<>> THEN <<>>
    ELSE Appended(EventBlock(Head(evs)), EventBlocks(Tail(evs)))

\* calendar.events is there (a calendar record may lack the field)
HasEvents(cal) == "events" \in DOMAIN cal

\* the header, the event blocks and END:VCALENDAR, or the exception a block
\* ended the call with
Closed(header, blocks) ==
    IF blocks = Thrown THEN Thrown
    ELSE header \o blocks \o <<Line("END", <<"VCALENDAR">>)>>

\* the renderer with a block emitted for a calendar without events
feedWithPlaceholder(cal) ==
    Closed(HeaderBlock(cal),
           IF HasEvents(cal) /\ cal.events # <<>>
           THEN EventBlocks(cal.events)
           ELSE <<Line("BEGIN", <<"VEVENT">>), Line("END", <<"VEVENT">>)>>)

\* the events last to first
Reversed(evs) == [i \in DOMAIN evs |-> evs[Len(evs) + 1 - i]]

\* the renderer walking the events from the last to the first
feedNewestFirst(cal) ==
    Closed(HeaderBlock(cal),
           IF HasEvents(cal) THEN EventBlocks(Reversed(cal.events)) ELSE <<>>)

\* const events = calendar.events || []; then the header, the forEach, the end
generateCalendarFeed(cal) ==
    Closed(HeaderBlock(cal), IF HasEvents(cal) THEN EventBlocks(cal.events) ELSE <<>>)

----------------------------------------------------------------------------
(* generateCalendarFeed applied to one calendar *)

Standup == <<"S", "t", "a", "n", "d", "u", "p">>
TeamSync == <<"T", "e", "a", "m", " ", "S", "y", "n", "c">>
RoomText == <<"R", "m", ";", "2", ",", "B">>
NotesText == <<"a", NEWLINE, "b", BACKSLASH>>

RenderDates == {<<2024, 6, 1>>, <<2024, 2, 29>>, <<2024, 12, 31>>}
RenderTimes == {Absent, <<9, 0>>, <<23, 30>>}
RenderEndTimes == {Absent, <<9, 15>>}

Event(id, title, description, location, date, time, endTime) ==
    [id |-> id, title |-> title, description |-> description,
     location |-> location, date |-> date, time |-> time, endTime |-> endTime]

\* events as the feed route hands them to the renderer
RenderEvents ==
    { Event("e1", Standup, Absent, Absent, d, t, e) :
          d \in RenderDates, t \in RenderTimes, e \in RenderEndTimes }
    \cup { Event("e2", Standup, Absent, Absent, Absent, Absent, Absent),
           Event("e3", NotesText, NotesText, Absent, <<2024, 6, 1>>, <<0, 15>>, <<0, 45>>),
           Event("e4", Standup, <<>>, RoomText, <<2024, 12, 31>>, <<>>, <<>>),
           Event("e5", Standup, NotesText, RoomText, <<2024, 2, 29>>, <<9, 0>>, Absent) }

RenderCalendars ==
    { [name |-> TeamSync, description |-> d] : d \in {Absent, NotesText} }
    \cup { [name |-> TeamSync, description |-> d, events |-> ev] :
               d \in {Absent, NotesText},
               ev \in UNION {[1..k -> RenderEvents] : k \in 0..MaxRenderEvents} }

\* 2024-06-01T08:00Z
RenderClock == DaysFromCivil(2024, 6, 1) * MinutesPerDay + 480

RenInit ==
    /\ tz \in TZOffsets
    /\ now = RenderClock
    /\ calendar \in RenderCalendars
    /\ document = Unset

Render ==
    /\ document = Unset
    /\ document' = generateCalendarFeed(calendar)
    /\ UNCHANGED <<calendar, envVars>>

----------------------------------------------------------------------------
(* src/server.js: the routes *)

\* the sessions of the session store
Sessions == {"s1"}
\* a request that carries no session cookie
Anonymous == "anonymous"
\* who sends a request
Clients == Sessions \cup {Anonymous}
\* req.session.tokens is undefined
NoTokens == <<>>
\* the tokens getToken(code) returns for the account behind a session
TokensOf(s) == <<"tokens", s>>
\* req.session.tokens of a request
RequestTokens(c) == IF c \in Sessions THEN sessionTokens[c] ELSE NoTokens

\* identifiers Google hands out, in order
CalendarIds == <<"c1", "c2", "c3", "c4">>
EventIds == <<"e1", "e2", "e3", "e4">>
\* a calendar identifier Google never handed out
UnknownCalendar == "c0"
RequestCalendarIds == {CalendarIds[i] : i \in 1..MaxCalendars} \cup {UnknownCalendar}
RequestEventIds == {EventIds[i] : i \in 1..MaxEvents}

\* request bodies of POST /api/calendars
CalendarBodies == { [name |-> TeamSync, description |-> NotesText] }

\* an ISO date-time string in a request body
IsoString == <<"2024-06-01T09:00:00Z">>
\* a date string new Date() cannot read
BadDate == <<"tomorrow">>

EventBody(title, description, location, startDateTime, endDateTime, date, time, endTime) ==
    [title |-> title, description |-> description, location |-> location,
     startDateTime |-> startDateTime, endDateTime |-> endDateTime,
     date |-> date, time |-> time, endTime |-> endTime]

\* request bodies of POST /api/calendars/:calendarId/events: date with times
\* of day, startDateTime with endDateTime and no date, an unreadable date,
\* and neither form
EventBodies ==
    { EventBody(Standup, Absent, RoomText, Absent, Absent, <<2024, 6, 1>>, <<9, 0>>, <<9, 15>>),
      EventBody(Standup, Absent, Absent, IsoString, IsoString, Absent, Absent, Absent),
      EventBody(Standup, Absent, Absent, Absent, Absent, BadDate, <<9, 0>>, Absent),
      EventBody(Standup, Absent, Absent, Absent, Absent, Absent, <<9, 0>>, Absent) }

\* what can go wrong outside the process while a request is handled: nothing,
\* the Google call, a Supabase read, a Supabase write
NoFault == "none"
UpstreamFault == "upstream"
ReadFault == "read"
WriteFault == "write"

\* res.status(...).json/send/redirect: the answer to one request.  authed
\* tells whether the request's session held tokens; sent is FALSE when the
\* handler's promise rejected and nothing was sent.
Answer(route, c, cid, status, type, body, logged) ==
    [route |-> route, authed |-> RequestTokens(c) # NoTokens,
     calendarId |-> cid, sent |-> TRUE, status |-> status, type |-> type,
     body |-> body, logged |-> logged]

\* an exception escaped the async handler: nothing is sent
Unhandled(route, c, cid, logged) ==
    [route |-> route, authed |-> RequestTokens(c) # NoTokens,
     calendarId |-> cid, sent |-> FALSE, status |-> 0, type |-> "none",
     body |-> <<>>, logged |-> logged]

NotAuthenticated(route, c) ==
    Answer(route, c, UnknownCalendar, 401, "json", <<"Not authenticated">>, {})

HasCalendar(cid) == \E i \in DOMAIN googleCalendars : googleCalendars[i].id = cid

\* nothing created upstream or stored, no request answered, and the OAuth
\* client as constructed: without credentials
AppEmpty ==
    /\ credentials = NoTokens
    /\ googleCalendars = <<>>
    /\ googleEvents = <<>>
    /\ googleIssued = 0
    /\ dbCalendars = <<>>
    /\ dbEvents = <<>>
    /\ response = [route |-> "none", authed |-> FALSE,
                   calendarId |-> UnknownCalendar, sent |-> TRUE, status |-> 0,
                   type |-> "none", body |-> <<>>, logged |-> {}]
    /\ ackedEvents = {}

AppInit ==
    /\ sessionTokens = [s \in Sessions |-> NoTokens]
    /\ AppEmpty

\* GET /auth/google
AuthGoogle(c) ==
    /\ response' = Answer("auth/google", c, UnknownCalendar, 302, "redirect", <<"authUrl">>, {})
    /\ UNCHANGED <<authVars, googleVars, dbVars, ackedEvents, notApp>>

\* GET /auth/callback
AuthCallback(s, hasCode, fault) ==
    /\ IF ~hasCode
       THEN /\ response' = Answer("auth/callback", s, UnknownCalendar, 400, "text",
                                  <<"No authorization code received">>, {})
            /\ UNCHANGED authVars
       ELSE IF fault = UpstreamFault
       THEN /\ response' = Answer("auth/callback", s, UnknownCalendar, 500, "text",
                                  <<"Authentication failed">>, {"Error getting tokens"})
            /\ UNCHANGED authVars
       ELSE /\ sessionTokens' = [sessionTokens EXCEPT ![s] = TokensOf(s)]
            /\ credentials' = TokensOf(s)
            /\ response' = Answer("auth/callback", s, UnknownCalendar, 302, "redirect",
                                  <<"/?auth=success">>, {})
    /\ UNCHANGED <<googleVars, dbVars, ackedEvents, notApp>>

\* GET /api/calendars
ListCalendars(c, fault) ==
    /\ IF RequestTokens(c) = NoTokens
       THEN /\ response' = NotAuthenticated("calendars.list", c)
            /\ UNCHANGED credentials
       ELSE /\ credentials' = RequestTokens(c)
            /\ response' =
                 IF fault = NoFault
                 THEN Answer("calendars.list", c, UnknownCalendar, 200, "json",
                             [i \in DOMAIN googleCalendars |-> googleCalendars[i].id], {})
                 ELSE Answer("calendars.list", c, UnknownCalendar, 500, "json",
                             <<"Failed to fetch calendars">>, {"Error fetching calendars"})
    /\ UNCHANGED <<sessionTokens, googleVars, dbVars, ackedEvents, notApp>>

\* the row insert([...]) adds to table calendars
\* (id is the table's serial, never given twice: here the number of the
\* calendar among those Google created)
CalendarRow(cid, body) ==
    [id |-> Len(googleCalendars) + 1, google_calendar_id |-> cid, name |-> body.name,
     description |-> body.description, owner_email |-> "unknown"]

\* a create-calendar route that fails the request when the row is not saved
calendarSaveFailureFails(c, cid, fault) ==
    IF fault = WriteFault
    THEN Answer("calendars.create", c, UnknownCalendar, 500, "json",
                <<"Failed to create calendar">>, {"Error saving to database"})
    ELSE Answer("calendars.create", c, cid, 200, "json",
                <<cid, "/api/subscriptions/", cid, "/feed.ics">>, {})

\* what POST /api/calendars answers once Google created the calendar: the
\* calendar with its subscription URLs, whether or not the row was saved
\* (dbError is logged and the route carries on)
CalendarCreated(c, cid, fault) ==
    Answer("calendars.create", c, cid, 200, "json",
           <<cid, "/api/subscriptions/", cid, "/feed.ics">>,
           IF fault = WriteFault THEN {"Error saving to database"} ELSE {})

\* POST /api/calendars
CreateCalendar(c, body, fault) ==
    LET cid == CalendarIds[Len(googleCalendars) + 1]
    IN
    /\ fault # UpstreamFault => Len(googleCalendars) < MaxCalendars
    /\ IF RequestTokens(c) = NoTokens
       THEN /\ response' = NotAuthenticated("calendars.create", c)
            /\ UNCHANGED <<credentials, googleCalendars, dbCalendars>>
       ELSE /\ credentials' = RequestTokens(c)
            /\ IF fault = UpstreamFault
               THEN /\ response' = Answer("calendars.create", c, UnknownCalendar, 500, "json",
                                          <<"Failed to create calendar">>,
                                          {"Error creating calendar"})
                    /\ UNCHANGED <<googleCalendars, dbCalendars>>
               ELSE /\ googleCalendars' = Append(googleCalendars,
                           [id |-> cid, summary |-> body.name,
                            description |-> body.description])
                    /\ dbCalendars' = IF fault = WriteFault
                                      THEN dbCalendars
                                      ELSE Append(dbCalendars, CalendarRow(cid, body))
                    /\ response' = CalendarCreated(c, cid, fault)
    /\ UNCHANGED <<sessionTokens, googleEvents, googleIssued, dbEvents, ackedEvents, notApp>>

\* GET /api/calendars/:calendarId/events
ListEvents(c, cid, fault) ==
    /\ IF RequestTokens(c) = NoTokens
       THEN /\ response' = NotAuthenticated("events.list", c)
            /\ UNCHANGED credentials
       ELSE /\ credentials' = RequestTokens(c)
            /\ response' =
                 IF fault = NoFault /\ HasCalendar(cid)
                 THEN Answer("events.list", c, cid, 200, "json",
                             SelectSeq(googleEvents, LAMBDA e : e.calendarId = cid), {})
                 ELSE Answer("events.list", c, cid, 500, "json",
                             <<"Failed to fetch events">>, {"Error fetching events"})
    /\ UNCHANGED <<sessionTokens, googleVars, dbVars, ackedEvents, notApp>>

\* start and end of the upstream event: both from the ISO strings, both from
\* date and times of day (Thrown when toISOString throws), or neither
StartAndEnd(body) ==
    IF Truthy(body.startDateTime) /\ Truthy(body.endDateTime)
    THEN <<body.startDateTime, body.endDateTime>>
    ELSE IF Truthy(body.date)
    THEN LET startDate == NewDate(body.date, IF Truthy(body.time) THEN body.time ELSE Noon)
             endDate   == IF Truthy(body.endTime)
                          THEN NewDate(body.date, body.endTime)
                          ELSE PlusOneHour(startDate)
         IN  IF toISOString(startDate) = Thrown \/ toISOString(endDate) = Thrown
             THEN Thrown
             ELSE <<toISOString(startDate), toISOString(endDate)>>
    ELSE <<Absent, Absent>>

\* the rows select(...).eq('google_calendar_id', cid) finds
CalendarRows(cid) == SelectSeq(dbCalendars, LAMBDA r : r.google_calendar_id = cid)

\* the row insert([...]) adds to table events
EventRow(calendarRowId, eid, body) ==
    [calendar_id |-> calendarRowId, google_event_id |-> eid, title |-> body.title,
     description |-> body.description, location |-> body.location,
     event_date |-> body.date, start_time |-> body.time, end_time |-> body.endTime]

\* POST /api/calendars/:calendarId/events
CreateEvent(c, cid, body, fault) ==
    LET eid == EventIds[googleIssued + 1]
        se  == StartAndEnd(body)
        failed == Answer("events.create", c, cid, 500, "json",
                         <<"Failed to create event">>, {"Error creating event"})
    IN
    /\ fault # UpstreamFault => googleIssued < MaxEvents
    /\ IF RequestTokens(c) = NoTokens
       THEN /\ response' = NotAuthenticated("events.create", c)
            /\ UNCHANGED <<credentials, googleEvents, googleIssued, dbEvents, ackedEvents>>
       ELSE /\ credentials' = RequestTokens(c)
            /\ IF \/ se = Thrown
                  \/ fault = UpstreamFault
                  \/ se[1] = Absent
                  \/ ~HasCalendar(cid)
               THEN /\ response' = failed
                    /\ UNCHANGED <<googleEvents, googleIssued, dbEvents, ackedEvents>>
               ELSE /\ googleIssued' = googleIssued + 1
                    /\ googleEvents' = Append(googleEvents,
                           [calendarId |-> cid, id |-> eid, summary |-> body.title,
                            start |-> se[1], end |-> se[2]])
                    /\ IF fault = ReadFault \/ Len(CalendarRows(cid)) # 1
                       THEN \* (await ... .single()).data is null: .id throws
                            /\ response' = failed
                            /\ UNCHANGED <<dbEvents, ackedEvents>>
                       ELSE /\ dbEvents' =
                                 IF fault = WriteFault
                                 THEN dbEvents
                                 ELSE Append(dbEvents,
                                             EventRow(CalendarRows(cid)[1].id, eid, body))
                            /\ response' = Answer("events.create", c, cid, 200, "json",
                                   <<eid, "Event added to Google Calendar and subscription feed">>,
                                   IF fault = WriteFault
                                   THEN {"Error saving event to database"} ELSE {})
                            /\ ackedEvents' = ackedEvents \cup
                                   {[calendarId |-> cid, id |-> eid, body |-> body]}
    /\ UNCHANGED <<sessionTokens, googleCalendars, dbCalendars, notApp>>

\* DELETE /api/calendars/:calendarId/events/:eventId
DeleteEvent(c, cid, eid, fault) ==
    /\ IF RequestTokens(c) = NoTokens
       THEN /\ response' = NotAuthenticated("events.delete", c)
            /\ UNCHANGED <<credentials, googleEvents, dbEvents, ackedEvents>>
       ELSE /\ credentials' = RequestTokens(c)
            /\ IF \/ fault = UpstreamFault
                  \/ ~\E i \in DOMAIN googleEvents :
                         googleEvents[i].id = eid /\ googleEvents[i].calendarId = cid
               THEN /\ response' = Answer("events.delete", c, cid, 500, "json",
                                          <<"Failed to delete event">>, {"Error deleting event"})
                    /\ UNCHANGED <<googleEvents, dbEvents, ackedEvents>>
               ELSE /\ googleEvents' = SelectSeq(googleEvents, LAMBDA e : e.id # eid)
                    /\ dbEvents' = IF fault = WriteFault
                                   THEN dbEvents
                                   ELSE SelectSeq(dbEvents, LAMBDA r : r.google_event_id # eid)
                    /\ response' = Answer("events.delete", c, cid, 200, "json",
                           <<eid, "Event deleted from Google Calendar and database">>,
                           IF fault = WriteFault
                           THEN {"Error deleting event from database"} ELSE {})
                    /\ ackedEvents' = {a \in ackedEvents : a.id # eid}
    /\ UNCHANGED <<sessionTokens, googleCalendars, googleIssued, dbCalendars, notApp>>

\* POST /api/calendars/:calendarId/share: acl.insert changes nothing any
\* route reads back
ShareCalendar(c, cid, fault) ==
    /\ IF RequestTokens(c) = NoTokens
       THEN /\ response' = NotAuthenticated("calendars.share", c)
            /\ UNCHANGED credentials
       ELSE /\ credentials' = RequestTokens(c)
            /\ response' =
                 IF fault = NoFault /\ HasCalendar(cid)
                 THEN Answer("calendars.share", c, cid, 200, "json", <<"reader">>, {})
                 ELSE Answer("calendars.share", c, cid, 500, "json",
                             <<"Failed to share calendar">>, {"Error sharing calendar"})
    /\ UNCHANGED <<sessionTokens, googleVars, dbVars, ackedEvents, notApp>>

\* where order('event_date', {ascending: true}) puts a row: by date, rows
\* without a date last
DateKey(row) ==
    IF IsDateString(row.event_date)
    THEN <<0, DaysFromCivil(row.event_date[1], row.event_date[2], row.event_date[3])>>
    ELSE <<1, 0>>

KeyBefore(a, b) == a[1] < b[1] \/ (a[1] = b[1] /\ a[2] < b[2])

\* rows in ascending event_date, rows of equal date in insertion order
RECURSIVE InsertByDate(_, _)
InsertByDate(row, sorted) ==
    IF sorted = <<>> THEN <<row>>
    ELSE IF KeyBefore(DateKey(row), DateKey(Head(sorted)))
         THEN <<row>> \o sorted
         ELSE <<Head(sorted)>> \o InsertByDate(row, Tail(sorted))

RECURSIVE OrderByEventDate(_)
OrderByEventDate(rows) ==
    IF rows = <<>> THEN <<>>
    ELSE InsertByDate(rows[Len(rows)],
                      OrderByEventDate(SubSeq(rows, 1, Len(rows) - 1)))

\* the events of the feed, as the route maps the rows
FeedEvent(e) ==
    [id |-> e.google_event_id, title |-> e.title, description |-> e.description,
     location |-> e.location, date |-> e.event_date, time |-> e.start_time,
     endTime |-> e.end_time, googleEventId |-> e.google_event_id]

\* the rows select('*').eq('calendar_id', id).order('event_date') finds
EventRows(calendarRowId) ==
    OrderByEventDate(SelectSeq(dbEvents, LAMBDA e : e.calendar_id = calendarRowId))

\* calendarData as the route builds it from the calendar row and the rows of
\* its events (none when the events query failed)
CalendarData(row, fault) ==
    LET rows == IF fault = ReadFault THEN <<>> ELSE EventRows(row.id)
    IN  [id |-> row.google_calendar_id, name |-> row.name, description |-> row.description,
         events |-> [i \in DOMAIN rows |-> FeedEvent(rows[i])]]

\* console.error('Error fetching calendar:', calError): calError says that
\* single() found no row, or that the query failed
CalendarNoRows == "Error fetching calendar: no rows"
CalendarQueryFailed == "Error fetching calendar: query failed"

\* res.send(icsContent), unless generateCalendarFeed threw
Sent(c, cid, ics, logged) ==
    IF ics = Thrown
    THEN Unhandled("feed", c, cid, logged)
    ELSE Answer("feed", c, cid, 200, "text/calendar; charset=utf-8", ics, logged)

\* the feed route serving a calendar the store does not hold from what
\* Google holds
feedFallsBackToGoogle(c, cid, fault) ==
    IF fault = UpstreamFault
    THEN Answer("feed", c, cid, 404, "text", <<"Calendar not found">>, {CalendarQueryFailed})
    ELSE IF Len(CalendarRows(cid)) # 1
    THEN IF HasCalendar(cid)
         THEN Sent(c, cid, generateCalendarFeed([name |-> TeamSync, description |-> Absent]),
                   {CalendarNoRows})
         ELSE Answer("feed", c, cid, 404, "text", <<"Calendar not found">>, {CalendarNoRows})
    ELSE Sent(c, cid, generateCalendarFeed(CalendarData(CalendarRows(cid)[1], fault)),
              IF fault = ReadFault THEN {"Error fetching events"} ELSE {})

\* the answer of GET /api/subscriptions/:calendarId/feed.ics; the fault is
\* none, the calendars query (UpstreamFault) or the events query (ReadFault)
FeedAnswer(c, cid, fault) ==
    IF fault = UpstreamFault \/ Len(CalendarRows(cid)) # 1
    THEN Answer("feed", c, cid, 404, "text", <<"Calendar not found">>,
                {IF fault = UpstreamFault THEN CalendarQueryFailed ELSE CalendarNoRows})
    ELSE Sent(c, cid, generateCalendarFeed(CalendarData(CalendarRows(cid)[1], fault)),
              IF fault = ReadFault THEN {"Error fetching events"} ELSE {})

\* GET /api/subscriptions/:calendarId/feed.ics
GetFeed(c, cid, fault) ==
    /\ response' = FeedAnswer(c, cid, fault)
    /\ UNCHANGED <<authVars, googleVars, dbVars, ackedEvents, notApp>>

\* POST /api/subscriptions/:calendarId
UpdateSubscription(c, cid) ==
    /\ response' = Answer("subscriptions.update", c, cid, 200, "json",
                          <<cid, "/api/subscriptions/", cid, "/feed.ics">>, {})
    /\ UNCHANGED <<authVars, googleVars, dbVars, ackedEvents, notApp>>

\* GET /api/auth/status
AuthStatus(c) ==
    /\ response' = Answer("auth/status", c, UnknownCalendar, 200, "json",
                          <<IF RequestTokens(c) # NoTokens THEN "present" ELSE "none">>, {})
    /\ UNCHANGED <<authVars, googleVars, dbVars, ackedEvents, notApp>>

\* POST /api/auth/logout
Logout(s) ==
    /\ sessionTokens' = [sessionTokens EXCEPT ![s] = NoTokens]
    /\ response' = Answer("auth/logout", s, UnknownCalendar, 200, "json", <<"success">>, {})
    /\ UNCHANGED <<credentials, googleVars, dbVars, ackedEvents, notApp>>

\* GET /health
Health(c, fault) ==
    /\ response' = Answer("health", c, UnknownCalendar, 200, "json",
                          <<IF fault = NoFault THEN Len(dbCalendars) ELSE 0>>, {})
    /\ UNCHANGED <<authVars, googleVars, dbVars, ackedEvents, notApp>>

\* the session cookie's maxAge passes: the session is gone
ExpireSession(s) ==
    /\ sessionTokens[s] # NoTokens
    /\ sessionTokens' = [sessionTokens EXCEPT ![s] = NoTokens]
    /\ UNCHANGED <<credentials, googleVars, dbVars, response, ackedEvents, notApp>>

\* the process restarts: the in-memory session store and the OAuth client
\* start empty
Restart ==
    /\ sessionTokens' = [s \in Sessions |-> NoTokens]
    /\ credentials' = NoTokens
    /\ UNCHANGED <<googleVars, dbVars, response, ackedEvents, notApp>>

Next ==
    \/ \E c \in Clients : AuthGoogle(c)
    \/ \E s \in Sessions, hasCode \in BOOLEAN, f \in {NoFault, UpstreamFault} :
           AuthCallback(s, hasCode, f)
    \/ \E c \in Clients, f \in {NoFault, UpstreamFault} : ListCalendars(c, f)
    \/ \E c \in Clients, body \in CalendarBodies, f \in {NoFault, UpstreamFault, WriteFault} :
           CreateCalendar(c, body, f)
    \/ \E c \in Clients, cid \in RequestCalendarIds, f \in {NoFault, UpstreamFault} :
           ListEvents(c, cid, f)
    \/ \E c \in Clients, cid \in RequestCalendarIds, body \in EventBodies,
          f \in {NoFault, UpstreamFault, ReadFault, WriteFault} :
           CreateEvent(c, cid, body, f)
    \/ \E c \in Clients, cid \in RequestCalendarIds, eid \in RequestEventIds,
          f \in {NoFault, UpstreamFault, WriteFault} :
           DeleteEvent(c, cid, eid, f)
    \/ \E c \in Clients, cid \in RequestCalendarIds, f \in {NoFault, UpstreamFault} :
           ShareCalendar(c, cid, f)
    \/ \E c \in Clients, cid \in RequestCalendarIds, f \in {NoFault, UpstreamFault, ReadFault} :
           GetFeed(c, cid, f)
    \/ \E c \in Clients, cid \in RequestCalendarIds : UpdateSubscription(c, cid)
    \/ \E c \in Clients : AuthStatus(c)
    \/ \E s \in Sessions : Logout(s)
    \/ \E c \in Clients, f \in {NoFault, ReadFault} : Health(c, f)
    \/ \E s \in Sessions : ExpireSession(s)
    \/ Restart

----------------------------------------------------------------------------
(* Deleting a calendar *)

DeleteInit == deletedCalendars = {}

\* the rows of a calendar's events go with the calendar
Cascaded(rows, calendarRowId) == SelectSeq(rows, LAMBDA e : e.calendar_id # calendarRowId)

\* the delete request for a calendar: 401 without a session, 404 when the
\* store holds no calendar under the identifier, and otherwise the calendar's
\* row and the rows of its events leave the store
DeleteCalendar(c, cid) ==
    /\ IF RequestTokens(c) = NoTokens
       THEN /\ response' = NotAuthenticated("calendars.delete", c)
            /\ UNCHANGED <<dbVars, ackedEvents, deletedCalendars>>
       ELSE IF CalendarRows(cid) = <<>>
       THEN /\ response' = Answer("calendars.delete", c, cid, 404, "json",
                                  <<"Calendar not found">>, {})
            /\ UNCHANGED <<dbVars, ackedEvents, deletedCalendars>>
       ELSE /\ dbCalendars' = SelectSeq(dbCalendars, LAMBDA r : r.google_calendar_id # cid)
            /\ dbEvents' = Cascaded(dbEvents, CalendarRows(cid)[1].id)
            /\ ackedEvents' = {a \in ackedEvents : a.calendarId # cid}
            /\ deletedCalendars' = deletedCalendars \cup
                   {[calendarId |-> cid, id |-> CalendarRows(cid)[1].id,
                     cascaded |-> Len(EventRows(CalendarRows(cid)[1].id))]}
            /\ response' = Answer("calendars.delete", c, cid, 200, "json", <<cid>>, {})
    /\ UNCHANGED <<authVars, googleVars, escVars, renVars, envVars, magicVars, clientVars>>

\* the routes that write the store or read it back, and the delete request
StoreNext ==
    \/ \E s \in Sessions : AuthCallback(s, TRUE, NoFault)
    \/ \E c \in Clients, body \in CalendarBodies, f \in {NoFault, UpstreamFault, WriteFault} :
           CreateCalendar(c, body, f)
    \/ \E c \in Clients, cid \in RequestCalendarIds, body \in EventBodies,
          f \in {NoFault, UpstreamFault, ReadFault, WriteFault} :
           CreateEvent(c, cid, body, f)
    \/ \E c \in Clients, cid \in RequestCalendarIds, eid \in RequestEventIds,
          f \in {NoFault, UpstreamFault, WriteFault} :
           DeleteEvent(c, cid, eid, f)
    \/ \E c \in Clients, cid \in RequestCalendarIds, f \in {NoFault, UpstreamFault, ReadFault} :
           GetFeed(c, cid, f)
    \/ \E c \in Clients, cid \in RequestCalendarIds : DeleteCalendar(c, cid)

----------------------------------------------------------------------------
(* The process-wide OAuth client *)

\* the sessions whose requests overlap
ClientSessions == {"s1", "s2"}
\* the routes that set the credentials and make one Google call
OneCallApis == {"calendarList.list", "calendars.insert"}

\* a handler of a session's request, suspended at an await
Handler(s, route, pc) == [session |-> s, route |-> route, pc |-> pc]
\* a Google API call: whose request made it, and the credentials the client
\* held when the call was made
UpstreamCall(s, api, auth) == [session |-> s, api |-> api, auth |-> auth]

\* what the handlers below leave alone
notClient == <<escVars, renVars, envVars, magicVars, deletedCalendars,
               googleVars, dbVars, response, ackedEvents>>

ClientInit ==
    /\ inflight = {}
    /\ upstreamCalls = {}

\* GET /auth/callback up to its await: getToken(code) is under way
CallbackGetToken(s) ==
    /\ Cardinality(inflight) < MaxInflight
    /\ inflight' = inflight \cup {Handler(s, "auth/callback", "getToken")}
    /\ UNCHANGED <<sessionTokens, credentials, upstreamCalls, notClient>>

\* GET /auth/callback after its await: the tokens go into the session and
\* onto the client
CallbackSetCredentials(s) ==
    /\ Handler(s, "auth/callback", "getToken") \in inflight
    /\ sessionTokens' = [sessionTokens EXCEPT ![s] = TokensOf(s)]
    /\ credentials' = TokensOf(s)
    /\ inflight' = inflight \ {Handler(s, "auth/callback", "getToken")}
    /\ UNCHANGED <<upstreamCalls, notClient>>

\* a route with one Google call, up to its await: setCredentials with the
\* session's tokens, then the call, made with the credentials the client holds
OneCall(s, api) ==
    /\ sessionTokens[s] # NoTokens
    /\ Cardinality(inflight) < MaxInflight
    /\ credentials' = sessionTokens[s]
    /\ upstreamCalls' = upstreamCalls \cup {UpstreamCall(s, api, credentials')}
    /\ inflight' = inflight \cup {Handler(s, api, "called")}
    /\ UNCHANGED <<sessionTokens, notClient>>

\* the feed route falling back to Google, up to its first await:
\* setCredentials with the session's tokens, then calendars.get
FeedFallbackGet(s) ==
    /\ sessionTokens[s] # NoTokens
    /\ Cardinality(inflight) < MaxInflight
    /\ credentials' = sessionTokens[s]
    /\ upstreamCalls' = upstreamCalls \cup {UpstreamCall(s, "calendars.get", credentials')}
    /\ inflight' = inflight \cup {Handler(s, "feed", "calendars.get")}
    /\ UNCHANGED <<sessionTokens, notClient>>

\* the feed route falling back to Google, between its awaits: events.list,
\* made with the credentials the client holds by now
FeedFallbackList(s) ==
    /\ Handler(s, "feed", "calendars.get") \in inflight
    /\ upstreamCalls' = upstreamCalls \cup {UpstreamCall(s, "events.list", credentials)}
    /\ inflight' = (inflight \ {Handler(s, "feed", "calendars.get")})
                       \cup {Handler(s, "feed", "called")}
    /\ UNCHANGED <<sessionTokens, credentials, notClient>>

\* the last Google call of a handler returns and the handler answers
Answered(s, route) ==
    /\ Handler(s, route, "called") \in inflight
    /\ inflight' = inflight \ {Handler(s, route, "called")}
    /\ UNCHANGED <<sessionTokens, credentials, upstreamCalls, notClient>>

ClientNext ==
    \/ \E s \in ClientSessions : CallbackGetToken(s)
    \/ \E s \in ClientSessions : CallbackSetCredentials(s)
    \/ \E s \in ClientSessions, api \in OneCallApis : OneCall(s, api)
    \/ \E s \in ClientSessions : FeedFallbackGet(s)
    \/ \E s \in ClientSessions : FeedFallbackList(s)
    \/ \E s \in ClientSessions, route \in OneCallApis \cup {"feed"} : Answered(s, route)

----------------------------------------------------------------------------
(* Magic links: requestMagicLink and consumeMagicLink *)

\* the tokens requestMagicLink generates, in order
Tokens == <<"t1", "t2", "t3">>
\* a token no link was issued for
UnknownToken == "t0"
ConsumeTokens == {Tokens[i] : i \in 1..MaxLinks} \cup {UnknownToken}
\* who asks for links
Emails == {"a@b.com"}
\* the verification requests in flight
Callers == {"p1", "p2", "p3"}
\* the two orders in which an implementation may run its checks: the lookup
\* asks for an unused link, or for any link and leaves the used flag to the
\* conditional update
CheckOrders == {"usedFirst", "expiryFirst"}

\* lifetime of a link, in minutes
MagicLinkMinutes == 15

\* the links holding this token
LinksOf(links, token) == SelectSeq(links, LAMBDA l : l.token = token)

\* an expiry check that lets every link through
neverExpired(link, t) == FALSE

\* expiresAt < now
IsExpired(link, t) == link.expiresAt < t

\* an update that marks the link used whatever its flag is
affectedIgnoringUsed(links, token) == Len(LinksOf(links, token))

\* how many rows "mark used where token matches and currently unused" changes
Affected(links, token) ==
    Len(SelectSeq(links, LAMBDA l : l.token = token /\ ~l.used))

MarkUsed(links, token) ==
    [i \in DOMAIN links |->
        IF links[i].token = token THEN [links[i] EXCEPT !.used = TRUE] ELSE links[i]]

\* the last-login timestamp of a User who has not logged in
NoLogin == <<>>

IdleCall ==
    [pc |-> "idle", token |-> UnknownToken, order |-> "usedFirst", startedAt |-> 0,
     saw |-> "nothing", result |-> "none"]

MagicInit ==
    /\ magicLinks = <<>>
    /\ lastLogin = [e \in Emails |-> NoLogin]
    /\ calls = [p \in Callers |-> IdleCall]

\* requestMagicLink(email)
RequestMagicLink(email) ==
    /\ Len(magicLinks) < MaxLinks
    /\ magicLinks' = Append(magicLinks,
           [token |-> Tokens[Len(magicLinks) + 1], email |-> email,
            expiresAt |-> now + MagicLinkMinutes, used |-> FALSE])
    /\ UNCHANGED <<lastLogin, calls, now, notMagic>>

\* consumeMagicLink(token), first step: look the link up
ConsumeLookup(p, token, order) ==
    LET all   == LinksOf(magicLinks, token)
        found == IF order = "usedFirst"
                 THEN SelectSeq(all, LAMBDA l : ~l.used)
                 ELSE all
        saw   == IF all = <<>> THEN "nothing"
                 ELSE IF all[1].used THEN "used" ELSE "unused"
    IN
    /\ calls[p].pc = "idle"
    /\ calls' = [calls EXCEPT ![p] =
           [pc |-> IF found = <<>> THEN "done" ELSE "found",
            token |-> token, order |-> order, startedAt |-> now, saw |-> saw,
            result |-> IF found = <<>> THEN "NotFound" ELSE "none"]]
    /\ UNCHANGED <<magicLinks, lastLogin, now, notMagic>>

\* consumeMagicLink(token), second step: compare the expiry with the clock
ConsumeCheckExpiry(p) ==
    /\ calls[p].pc = "found"
    /\ calls' = [calls EXCEPT ![p] =
           IF IsExpired(LinksOf(magicLinks, calls[p].token)[1], now)
           THEN [@ EXCEPT !.pc = "done", !.result = "Expired"]
           ELSE [@ EXCEPT !.pc = "fresh"]]
    /\ UNCHANGED <<magicLinks, lastLogin, now, notMagic>>

\* consumeMagicLink(token), last step: mark used where currently unused, and
\* succeed when that changed a row
ConsumeMarkUsed(p) ==
    LET token == calls[p].token
    IN
    /\ calls[p].pc = "fresh"
    /\ IF Affected(magicLinks, token) = 1
       THEN /\ magicLinks' = MarkUsed(magicLinks, token)
            /\ lastLogin' = [lastLogin EXCEPT
                                ![LinksOf(magicLinks, token)[1].email] = <<now>>]
            /\ calls' = [calls EXCEPT ![p] = [@ EXCEPT !.pc = "done", !.result = "ok"]]
       ELSE /\ calls' = [calls EXCEPT ![p] =
                            [@ EXCEPT !.pc = "done", !.result = "AlreadyUsed"]]
            /\ UNCHANGED <<magicLinks, lastLogin>>
    /\ UNCHANGED <<now, notMagic>>

\* time passes
Tick ==
    /\ now < RenderClock + MaxTicks * TickMinutes
    /\ now' = now + TickMinutes
    /\ UNCHANGED <<magicLinks, lastLogin, calls, notMagic>>

MagicNext ==
    \/ \E email \in Emails : RequestMagicLink(email)
    \/ \E p \in Callers, token \in ConsumeTokens, order \in CheckOrders :
           ConsumeLookup(p, token, order)
    \/ \E p \in Callers : ConsumeCheckExpiry(p)
    \/ \E p \in Callers : ConsumeMarkUsed(p)
    \/ Tick

----------------------------------------------------------------------------
(* escapeICSText applied to one argument *)

EscInit ==
    /\ text \in TextsUpTo(MaxLen) \cup {Absent}
    /\ escaped = Unset

Escape ==
    /\ escaped = Unset
    /\ escaped' = escapeICSText(text)
    /\ UNCHANGED text

----------------------------------------------------------------------------
(* Specifications *)

\* the variables a specification does not use, at rest
Idle == DeleteInit /\ ClientInit
EscIdle == text = Absent /\ escaped = Unset
RenIdle == calendar = [name |-> TeamSync, description |-> Absent] /\ document = Unset
EnvIdle == tz = 0 /\ now = RenderClock

InitEscape == EscInit /\ RenIdle /\ EnvIdle /\ AppInit /\ MagicInit /\ Idle
NextEscape == Escape /\ UNCHANGED <<renVars, envVars, appVars, magicVars, deletedCalendars, clientVars>>
SpecEscape == InitEscape /\ [][NextEscape]_vars

InitRender == RenInit /\ EscIdle /\ AppInit /\ MagicInit /\ Idle
NextRender == Render /\ UNCHANGED <<escVars, appVars, magicVars, deletedCalendars, clientVars>>
SpecRender == InitRender /\ [][NextRender]_vars

\* src/server.js
Init == AppInit /\ EscIdle /\ RenIdle /\ EnvIdle /\ MagicInit /\ Idle
Spec == Init /\ [][Next]_vars

\* the magic-link exchange
InitMagic == MagicInit /\ EscIdle /\ RenIdle /\ EnvIdle /\ AppInit /\ Idle
SpecMagic == InitMagic /\ [][MagicNext]_vars

\* the store under creations, deletions and feed fetches
SpecStore == Init /\ [][StoreNext]_vars

\* overlapping requests of two sessions on the one OAuth client
InitClient ==
    /\ sessionTokens = [s \in ClientSessions |-> NoTokens]
    /\ AppEmpty /\ EscIdle /\ RenIdle /\ EnvIdle /\ MagicInit /\ Idle
SpecClient == InitClient /\ [][ClientNext]_vars

----------------------------------------------------------------------------
(* Claims about escapeICSText *)

\* RFC 5545 TEXT unescaping: one left-to-right scan in which a backslash
\* takes the next character with it
RECURSIVE Unescape(_)
Unescape(s) ==
    IF s = <<>> THEN <<>>
    ELSE IF Head(s) = BACKSLASH /\ Len(s) >= 2
         THEN LET c == s[2]
              IN  <<(IF c \in {"n", "N"} THEN NEWLINE ELSE c)>>
                      \o Unescape(Tail(Tail(s)))
         ELSE <<Head(s)>> \o Unescape(Tail(s))

\* what the escaping rule makes of one character
EscapeOf(c) ==
    CASE c = BACKSLASH -> <<BACKSLASH, BACKSLASH>>
      [] c = ";"       -> <<BACKSLASH, ";">>
      [] c = ","       -> <<BACKSLASH, ",">>
      [] c = NEWLINE   -> <<BACKSLASH, "n">>
      [] c = CR        -> <<>>
      [] OTHER         -> <<c>>

RECURSIVE Charwise(_)
Charwise(s) == IF s = <<>> THEN <<>> ELSE EscapeOf(Head(s)) \o Charwise(Tail(s))

HasChar(s, c) == \E i \in 1..Len(s) : s[i] = c

\* C7: escaping and then the standard unescape gives back the original text,
\* for every text with no carriage return (ordinary characters, backslashes,
\* commas, semicolons, newlines, in any order and adjacency).
C7_RoundTrip ==
    (escaped # Unset /\ text # Absent /\ ~HasChar(text, CR))
        => Unescape(escaped) = text

\* C7 witness: a backslash directly followed by the letter n, then a real
\* newline, has been escaped.
C7_Witness ==
    /\ text = <<BACKSLASH, "n", NEWLINE>>
    /\ escaped = <<BACKSLASH, BACKSLASH, "n", BACKSLASH, "n">>

\* C8: the value returned is the character-by-character image of the text
\* (backslash doubled, semicolon, comma and newline prefixed or replaced,
\* carriage return dropped, everything else kept, in order), and the empty
\* text for absent or empty text.
C8_EscapeMap ==
    escaped # Unset
        => escaped = (IF text = Absent THEN <<>> ELSE Charwise(text))

\* C8 witness: a semicolon, a carriage return and a newline have been
\* escaped, and the backslashes put before them were not doubled.
C8_Witness ==
    /\ text = <<";", CR, NEWLINE>>
    /\ escaped = <<BACKSLASH, ";", BACKSLASH, "n">>

----------------------------------------------------------------------------
(* Claims about generateCalendarFeed *)

Rendered == document # Unset /\ document # Thrown

LinesNamed(doc, name) == SelectSeq(doc, LAMBDA l : l.name = name)
CountLine(doc, l) == Len(SelectSeq(doc, LAMBDA x : x = l))

DigitVal(c) == CHOOSE i \in 0..9 : Digits[i + 1] = c
IsDigit(c) == \E i \in 0..9 : Digits[i + 1] = c
Num2(v, i) == DigitVal(v[i]) * 10 + DigitVal(v[i + 1])
Num4(v, i) == Num2(v, i) * 100 + Num2(v, i + 2)

\* v reads YYYYMMDDTHHMMSSZ: sixteen characters, no separators, no fraction
IsStamp(v) ==
    /\ Len(v) = 16
    /\ v[9] = "T" /\ v[16] = "Z"
    /\ \A i \in (1..8) \cup (10..15) : IsDigit(v[i])
    /\ Num2(v, 5) \in 1..12 /\ Num2(v, 7) \in 1..31
    /\ Num2(v, 10) \in 0..23 /\ Num2(v, 12) \in 0..59 /\ Num2(v, 14) \in 0..59

\* the UTC instant a stamp names, in seconds since the epoch
StampSeconds(v) ==
    (DaysFromCivil(Num4(v, 1), Num2(v, 5), Num2(v, 7)) * MinutesPerDay
         + Num2(v, 10) * 60 + Num2(v, 12)) * 60 + Num2(v, 14)

\* the UTC instant at which the process's clocks show date and time of day
WallSeconds(date, time) ==
    (DaysFromCivil(date[1], date[2], date[3]) * MinutesPerDay
         + time[1] * 60 + time[2] - tz) * 60

\* C2: in a rendered document the k-th DTSTART is a YYYYMMDDTHHMMSSZ stamp of
\* the instant of the k-th event's date and start time of day (12:00 when the
\* time is absent), taken as the process's local time and expressed in UTC;
\* the k-th DTEND is the stamp of date and end time of day when there is one,
\* and otherwise of exactly one hour after DTSTART.
C2_Timestamps ==
    (Rendered /\ HasEvents(calendar)) =>
        LET starts == LinesNamed(document, "DTSTART")
            ends   == LinesNamed(document, "DTEND")
        IN  /\ Len(starts) = Len(calendar.events)
            /\ Len(ends) = Len(calendar.events)
            /\ \A k \in 1..Len(calendar.events) :
                 LET e == calendar.events[k]
                     s == starts[k].value
                     f == ends[k].value
                 IN  /\ IsStamp(s) /\ IsStamp(f)
                     /\ StampSeconds(s) =
                            WallSeconds(e.date, IF Truthy(e.time) THEN e.time ELSE Noon)
                     /\ StampSeconds(f) =
                            IF Truthy(e.endTime)
                            THEN WallSeconds(e.date, e.endTime)
                            ELSE StampSeconds(s) + 3600

\* C2 witness: an event at 23:30 on 2024-12-31 with no end time has been
\* rendered by a process in UTC; its end is 00:30 on the first of January.
C2_Witness ==
    /\ Rendered /\ tz = 0 /\ HasEvents(calendar)
    /\ calendar.events = <<Event("e1", Standup, Absent, Absent, <<2024, 12, 31>>, <<23, 30>>, Absent)>>
    /\ LinesNamed(document, "DTSTART")[1].value
           = <<"2","0","2","4","1","2","3","1","T","2","3","3","0","0","0","Z">>
    /\ LinesNamed(document, "DTEND")[1].value
           = <<"2","0","2","5","0","1","0","1","T","0","0","3","0","0","0","Z">>

\* C3: for a calendar whose events are empty or missing the renderer returns
\* a document with exactly one BEGIN:VCALENDAR (its first line), exactly one
\* END:VCALENDAR (its last line) and no BEGIN:VEVENT or END:VEVENT line.
C3_EmptyCalendar ==
    (document # Unset /\ (~HasEvents(calendar) \/ calendar.events = <<>>)) =>
        /\ document # Thrown
        /\ CountLine(document, Line("BEGIN", <<"VCALENDAR">>)) = 1
        /\ CountLine(document, Line("END", <<"VCALENDAR">>)) = 1
        /\ Head(document) = Line("BEGIN", <<"VCALENDAR">>)
        /\ document[Len(document)] = Line("END", <<"VCALENDAR">>)
        /\ CountLine(document, Line("BEGIN", <<"VEVENT">>)) = 0
        /\ CountLine(document, Line("END", <<"VEVENT">>)) = 0

\* C3 witness: a calendar record without an events field has been rendered.
C3_Witness ==
    /\ ~HasEvents(calendar) /\ calendar.description = NotesText
    /\ Rendered /\ Len(document) = 11

----------------------------------------------------------------------------
(* Claims about the routes *)

\* the row of table calendars a public identifier names, if there is one
StoredRows(cid) == SelectSeq(dbCalendars, LAMBDA r : r.google_calendar_id = cid)

\* the last request was a feed fetch during which no store query failed
FeedFetched == response.route = "feed" /\ response.logged \subseteq {CalendarNoRows}

\* YYYYMMDDTHHMMSSZ of a date and a time of day read as UTC
UtcStamp(date, time) == Compact(ISOString(date, time[1] * 60 + time[2]))

\* the request body gives a date, a start time and an end time
FullForm(body) ==
    IsDateString(body.date) /\ IsTimeString(body.time) /\ IsTimeString(body.endTime)

\* the places in a document where the block of an acknowledged event starts
\* with the lines the event's title, date and times call for
BlocksOf(doc, a) ==
    {i \in 1..(Len(doc) - 4) :
        /\ doc[i] = Line("UID", <<a.id, "@calendar-app.com">>)
        /\ doc[i + 2] = Line("DTSTART", UtcStamp(a.body.date, a.body.time))
        /\ doc[i + 3] = Line("DTEND", UtcStamp(a.body.date, a.body.endTime))
        /\ doc[i + 4] = Line("SUMMARY", escapeICSText(a.body.title))}

\* C1: once create-event has answered 200 for an event with a title, a date,
\* a start time and an end time on a calendar made through create-calendar,
\* and the event has not been deleted, every fetch of that calendar's feed
\* answers 200 with a document holding exactly one block for the event, with
\* SUMMARY the escaped title, DTSTART the date and start time in UTC and
\* DTEND the date and end time in UTC.
C1_EndToEnd ==
    FeedFetched =>
        \A a \in ackedEvents :
            (a.calendarId = response.calendarId /\ FullForm(a.body)) =>
                /\ response.sent
                /\ response.status = 200
                /\ Cardinality(BlocksOf(response.body, a)) = 1

\* the routes that create, change or delete calendars, events and feeds
MutationRoutes ==
    {"calendars.create", "events.create", "events.delete", "calendars.share",
     "subscriptions.update"}

\* C5: a request to a mutation route (create calendar, create event, delete
\* event, share calendar, update subscription feed) whose session holds no
\* tokens is answered 401.
C5_MutationsNeedSession ==
    (response.route \in MutationRoutes /\ ~response.authed) => response.status = 401

\* C6: a feed fetch, with or without a session, is answered 200 with
\* content type text/calendar; charset=utf-8 and the renderer's output for
\* the calendar's stored events when the store holds a calendar under the
\* identifier, and 404 when it holds none.
C6_PublicFeed ==
    FeedFetched =>
        IF StoredRows(response.calendarId) # <<>>
        THEN /\ response.sent
             /\ response.status = 200
             /\ response.type = "text/calendar; charset=utf-8"
             /\ response.body =
                    generateCalendarFeed(
                        CalendarData(StoredRows(response.calendarId)[1], NoFault))
        ELSE response.sent /\ response.status = 404

\* C9: every request is answered, a feed fetch with 200 or 404, and the
\* renderer does not throw for any calendar of the store, whichever request
\* forms create-event accepted its events in.
C9_NoUncaughtException ==
    /\ response.sent
    /\ response.route = "feed" => response.status \in {200, 404}
    /\ \A i \in DOMAIN dbCalendars :
           generateCalendarFeed(CalendarData(dbCalendars[i], NoFault)) # Thrown

----------------------------------------------------------------------------
(* Claims about magic links *)

\* the calls made with a token, and those of them that succeeded
CallsOn(token) == {p \in Callers : calls[p].pc # "idle" /\ calls[p].token = token}
Successes(token) == {p \in CallsOn(token) : calls[p].result = "ok"}

Rejections == {"NotFound", "AlreadyUsed", "Expired"}

\* C4: of the consumeMagicLink calls made with one token at most one
\* succeeds, in every interleaving of their steps; the link is marked used
\* exactly when one has succeeded; and when every call made with an issued
\* token has returned, one of them found the link unused, and the link has
\* not expired, exactly one call has succeeded and every other has failed
\* with NotFound or AlreadyUsed.
C4_SingleUse ==
    \A i \in DOMAIN magicLinks :
        LET link == magicLinks[i]
            on   == CallsOn(link.token)
            won  == Successes(link.token)
        IN  /\ Cardinality(won) <= 1
            /\ link.used <=> Cardinality(won) = 1
            /\ \A p \in won : lastLogin[link.email] # NoLogin
            /\ ( /\ \A p \in on : calls[p].pc = "done"
                 /\ \E p \in on : calls[p].saw = "unused"
                 /\ now <= link.expiresAt )
               => /\ Cardinality(won) = 1
                  /\ \A p \in on \ won : calls[p].result \in {"NotFound", "AlreadyUsed"}

\* C4 witness: two calls with the same token both found the link unused and
\* unexpired; one has succeeded and the other has failed with AlreadyUsed.
C4_Witness ==
    \E p, q \in Callers :
        /\ p # q
        /\ calls[p].token = calls[q].token
        /\ calls[p].saw = "unused" /\ calls[q].saw = "unused"
        /\ calls[p].order = "usedFirst" /\ calls[q].order = "usedFirst"
        /\ calls[p].result = "ok"
        /\ calls[q].result = "AlreadyUsed"

\* the link a call was made with, if one was issued
LinkOfCall(p) == LinksOf(magicLinks, calls[p].token)

\* C10: a call that began when the link's expiry was in the past has failed
\* when it returns, with Expired when it found the link unused, and has left
\* the used flag as it was (a link is used only when a call succeeded on it);
\* a call that began when the link was used has failed when it returns,
\* expired or not and in either order of the checks.
C10_ExpiredOrUsedRejected ==
    /\ \A p \in Callers :
           (calls[p].pc = "done" /\ LinkOfCall(p) # <<>>) =>
               /\ (calls[p].saw = "unused" /\ LinkOfCall(p)[1].expiresAt < calls[p].startedAt)
                      => calls[p].result = "Expired"
               /\ (calls[p].saw # "nothing" /\ LinkOfCall(p)[1].expiresAt < calls[p].startedAt)
                      => calls[p].result \in Rejections
               /\ calls[p].saw = "used" => calls[p].result \in Rejections
    /\ \A i \in DOMAIN magicLinks :
           magicLinks[i].used => Successes(magicLinks[i].token) # {}

\* C10 witness: a call made with an unused link after its expiry has failed
\* with Expired and the link is still unused, and another call made with a
\* used link has failed too.
C10_Witness ==
    \E p, q \in Callers :
        /\ calls[p].pc = "done" /\ calls[p].saw = "unused"
        /\ LinkOfCall(p) # <<>>
        /\ LinkOfCall(p)[1].expiresAt < calls[p].startedAt
        /\ calls[p].result = "Expired"
        /\ ~LinkOfCall(p)[1].used
        /\ calls[q].pc = "done" /\ calls[q].saw = "used"
        /\ calls[q].order = "expiryFirst"
        /\ calls[q].result \in Rejections

----------------------------------------------------------------------------
(* Claims about deleting a calendar *)

\* C11: once a delete request has removed a calendar, the store holds no
\* calendar under its identifier and no event of it, and every feed fetch for
\* the identifier is answered 404, whatever creations and deletions of events
\* came before or come after.
C11_DeletedCalendarGone ==
    \A d \in deletedCalendars :
        /\ StoredRows(d.calendarId) = <<>>
        /\ \A i \in DOMAIN dbEvents : dbEvents[i].calendar_id # d.id
        /\ (response.route = "feed" /\ response.calendarId = d.calendarId)
               => (response.sent /\ response.status = 404)

\* C11 witness: a calendar that held an event has been deleted and its feed
\* has been fetched since, with no store query failing.
C11_Witness ==
    \E d \in deletedCalendars :
        /\ d.cascaded >= 1
        /\ response.route = "feed" /\ response.calendarId = d.calendarId
        /\ response.logged = {CalendarNoRows}

----------------------------------------------------------------------------
(* Claims about creating calendars and events *)

\* C12: whenever a request creates a calendar at Google and leaves the store
\* without its row, the request is a create-calendar that answers 200 with the
\* failure of the insert logged, and the calendars Google held before are all
\* still there; no request ever removes a calendar from Google.
C12_SaveFailureTolerated ==
    [][/\ Len(googleCalendars') >= Len(googleCalendars)
       /\ SubSeq(googleCalendars', 1, Len(googleCalendars)) = googleCalendars
       /\ (Len(googleCalendars') > Len(googleCalendars) /\ dbCalendars' = dbCalendars)
              => /\ response'.route = "calendars.create"
                 /\ response'.sent /\ response'.status = 200
                 /\ response'.calendarId = googleCalendars'[Len(googleCalendars')].id
                 /\ "Error saving to database" \in response'.logged]_vars

\* C12 witness: a create-calendar has answered 200 with the failed insert
\* logged; Google holds the calendar and the store has no row for it.
C12_Witness ==
    /\ response.route = "calendars.create"
    /\ response.sent /\ response.status = 200
    /\ "Error saving to database" \in response.logged
    /\ HasCalendar(response.calendarId)
    /\ CalendarRows(response.calendarId) = <<>>

\* C16: every event Google holds is one a create-event request answered 200
\* for: a create-event that answers 500 has created nothing upstream.
C16_FailureMeansNothingCreated ==
    \A i \in DOMAIN googleEvents :
        \E a \in ackedEvents :
            a.id = googleEvents[i].id /\ a.calendarId = googleEvents[i].calendarId

\* C17: a feed fetch for a calendar that create-calendar answered 200 for,
\* with no store query failing during the fetch, is answered 200.
C17_FeedAfterCreate ==
    (FeedFetched /\ HasCalendar(response.calendarId))
        => (response.sent /\ response.status = 200)

\* the events Google handed an identifier to and no longer holds: the ones a
\* delete-event request answered 200 for
DeletedEvents ==
    {EventIds[k] : k \in 1..googleIssued}
        \ {googleEvents[i].id : i \in DOMAIN googleEvents}

\* C18: a feed document served after delete-event answered 200 for an event
\* holds no UID line derived from that event.
C18_DeletedEventLeavesFeed ==
    (response.route = "feed" /\ response.sent /\ response.status = 200) =>
        \A e \in DeletedEvents :
            CountLine(response.body, Line("UID", <<e, "@calendar-app.com">>)) = 0

----------------------------------------------------------------------------
(* Claims about the OAuth client *)

\* C13: every Google API call is made with the tokens of the session whose
\* request makes it.
C13_OwnCredentials ==
    \A call \in upstreamCalls : call.auth = TokensOf(call.session)

----------------------------------------------------------------------------
(* Claims about the event blocks of a document *)

\* where the k-th line equal to l stands in a document
NthPosition(doc, l, k) ==
    CHOOSE i \in DOMAIN doc :
        doc[i] = l /\ Cardinality({j \in 1..i : doc[j] = l}) = k

\* the k-th event block of a document: from its BEGIN:VEVENT to its END:VEVENT
Block(doc, k) ==
    SubSeq(doc, NthPosition(doc, Line("BEGIN", <<"VEVENT">>), k),
                NthPosition(doc, Line("END", <<"VEVENT">>), k))

\* a value is text with every backslash, semicolon, comma and line feed
\* written as an escape
RECURSIVE IsEscapedText(_)
IsEscapedText(v) ==
    IF v = <<>> THEN TRUE
    ELSE IF Head(v) = BACKSLASH
         THEN Len(v) >= 2 /\ v[2] \in {BACKSLASH, ";", ",", "n"}
              /\ IsEscapedText(SubSeq(v, 3, Len(v)))
         ELSE Head(v) \notin {";", ",", NEWLINE} /\ IsEscapedText(Tail(v))

\* C14: a rendered document is the header, then one event block per input
\* event, in input order and with nothing between them, then END:VCALENDAR.
C14_OneBlockPerEvent ==
    (Rendered /\ HasEvents(calendar)) =>
        LET n      == Len(calendar.events)
            header == HeaderBlock(calendar)
            begin  == Line("BEGIN", <<"VEVENT">>)
            end    == Line("END", <<"VEVENT">>)
        IN  /\ SubSeq(document, 1, Len(header)) = header
            /\ document[Len(document)] = Line("END", <<"VCALENDAR">>)
            /\ CountLine(document, begin) = n
            /\ CountLine(document, end) = n
            /\ Len(LinesNamed(document, "UID")) = n
            /\ \A k \in 1..n :
                 /\ NthPosition(document, begin, k) =
                        IF k = 1 THEN Len(header) + 1
                        ELSE NthPosition(document, end, k - 1) + 1
                 /\ NthPosition(document, begin, k) < NthPosition(document, end, k)
                 /\ Block(document, k)[2] =
                        Line("UID", <<calendar.events[k].id, "@calendar-app.com">>)
                 /\ LinesNamed(Block(document, k), "SUMMARY")
                        = <<Line("SUMMARY", escapeICSText(calendar.events[k].title))>>
            /\ Len(document) =
                   IF n = 0 THEN Len(header) + 1
                   ELSE NthPosition(document, end, n) + 1

\* C14 witness: two events with different identifiers and titles have been
\* rendered into one document.
C14_Witness ==
    /\ Rendered /\ HasEvents(calendar)
    /\ Len(calendar.events) = 2
    /\ calendar.events[1].id = "e3" /\ calendar.events[2].id = "e4"
    /\ CountLine(document, Line("BEGIN", <<"VEVENT">>)) = 2

\* the names an event's block carries, in order
BlockNames(event) ==
    <<"BEGIN", "UID", "DTSTAMP", "DTSTART", "DTEND", "SUMMARY">>
    \o (IF Truthy(event.description) THEN <<"DESCRIPTION">> ELSE <<>>)
    \o (IF Truthy(event.location) THEN <<"LOCATION">> ELSE <<>>)
    \o <<"STATUS", "SEQUENCE", "END">>

\* C15: in a rendered document the block of each event carries, in this
\* order, BEGIN:VEVENT, UID (the identifier followed by @calendar-app.com, as
\* it is), DTSTAMP, DTSTART, DTEND, SUMMARY (escaped), DESCRIPTION (escaped,
\* only when the event has one), LOCATION (escaped, only when the event has
\* one), STATUS:CONFIRMED, SEQUENCE:0, END:VEVENT.
C15_FieldOrder ==
    (Rendered /\ HasEvents(calendar)) =>
        \A k \in 1..Len(calendar.events) :
            LET e     == calendar.events[k]
                block == Block(document, k)
                last  == Len(block)
            IN  /\ [i \in DOMAIN block |-> block[i].name] = BlockNames(e)
                /\ block[1].value = <<"VEVENT">>
                /\ block[2].value = <<e.id, "@calendar-app.com">>
                /\ IsStamp(block[3].value) /\ IsStamp(block[4].value)
                /\ IsStamp(block[5].value)
                /\ \A i \in 6..(last - 3) : IsEscapedText(block[i].value)
                /\ Unescape(block[6].value) = e.title
                /\ Truthy(e.description) => Unescape(block[7].value) = e.description
                /\ Truthy(e.location) => Unescape(block[last - 3].value) = e.location
                /\ block[last - 2].value = <<"CONFIRMED">>
                /\ block[last - 1].value = <<"0">>
                /\ block[last].value = <<"VEVENT">>

\* C15 witness: an event with a description and a location, both holding
\* characters to escape, has been rendered next to an event with neither.
C15_Witness ==
    /\ Rendered /\ HasEvents(calendar)
    /\ Len(calendar.events) = 2
    /\ calendar.events[1].id = "e5" /\ calendar.events[2].id = "e1"
    /\ Len(Block(document, 1)) = 11 /\ Len(Block(document, 2)) = 9

====
